---------------------------- MODULE Spec2Model ----------------------------
(***************************************************************************)
(* A model of simple-fuzzer: the ABI parameter kinds and their random      *)
(* encoding (src/src/fuzzer.rs), the wrapper around the execution          *)
(* environment (src/src/evm.rs) and the fuzzing loop of main               *)
(* (src/src/main.rs).                                                      *)
(*                                                                         *)
(* Bytes are the numbers 0..255 and byte strings (Vec<u8>, [u8; n]) are    *)
(* sequences of them.  A Rust panic is the value Panic(msg, at); a value   *)
(* that was computed is Ok(v).  What the execution environment (revm) and  *)
(* the compiler (solc) answer, and what the random source draws, are       *)
(* inputs: the actions pick them from the sample sets defined below.       *)
(***************************************************************************)
EXTENDS Integers, Sequences, FiniteSets, TLC

\* The loop of main is unbounded; the model stops generating at this many
\* iterations.
MaxIter == 3

VARIABLES
    pc,                         \* position in main
    output,                     \* main.rs:128: target_abi and invariant_checker
    invariant_checker_address,  \* main.rs:130
    target_address,             \* main.rs:132
    functions,                  \* solidity_fuzzer.functions (main.rs:134)
    iterations,                 \* main.rs:135
    picks,                      \* the functions gen_range picked (fuzzer.rs:140), oldest first
    calldata,                   \* main.rs:138
    result,                     \* main.rs:140: "Ok", "Err" or "none"
    log,                        \* the transactions handed to revm, with its answers
    stdout,                     \* the crash reports printed (main.rs:151-152)
    abort,                      \* the panic that ended the process, or NoPanic
    encoded                     \* ParamKind::random applied on its own: input and word

vars == <<pc, output, invariant_checker_address, target_address, functions,
          iterations, picks, calldata, result, log, stdout, abort, encoded>>

-----------------------------------------------------------------------------
(* Values and panics *)

Ok(v) == [ok |-> TRUE, val |-> v, msg |-> "", at |-> ""]

Panic(m, where) == [ok |-> FALSE, val |-> <<>>, msg |-> m, at |-> where]

NoPanic == [msg |-> "", at |-> ""]

PanicOf(r) == [msg |-> r.msg, at |-> r.at]

\* vec![0u8; n]
Zeros(n) == [i \in 1..n |-> 0]

-----------------------------------------------------------------------------
(* fuzzer.rs: ParamKind *)

Address == [tag |-> "Address", size |-> 0]

Bytes == [tag |-> "Bytes", size |-> 0]

Uint(n) == [tag |-> "Uint", size |-> n]

\* from_string with a catch-all arm that yields a kind instead of panicking.
from_string_lenient(str) ==
    CASE str = "address" -> Ok(Address)
      [] str = "uint8"   -> Ok(Uint(8))
      [] str = "uint16"  -> Ok(Uint(16))
      [] str = "uint32"  -> Ok(Uint(32))
      [] str = "uint64"  -> Ok(Uint(64))
      [] str = "uint128" -> Ok(Uint(128))
      [] str = "uint256" -> Ok(Uint(256))
      [] OTHER           -> Ok(Bytes)

\* ParamKind::from_string
from_string(str) ==
    CASE str = "address" -> Ok(Address)
      [] str = "bytes"   -> Ok(Bytes)
      [] str = "uint8"   -> Ok(Uint(8))
      [] str = "uint16"  -> Ok(Uint(16))
      [] str = "uint32"  -> Ok(Uint(32))
      [] str = "uint64"  -> Ok(Uint(64))
      [] str = "uint128" -> Ok(Uint(128))
      [] str = "uint256" -> Ok(Uint(256))
      [] OTHER           -> Panic("not implemented", "ParamKind::from_string")

\* The seeds of the sample draws of the random source.
DrawSeeds == {0, 7}

\* rng.gen::<[u8; n]>(): the draw of seed s, the bytes s*1, s*2, ..., s*n.
\* Seed 0 draws n zero bytes, seed 7 draws n different non-zero bytes.
gen(n, s) == [i \in 1..n |-> (s * i) % 256]

\* The padding computed from the bit width instead of the byte width.
padded_bytes_len_bits(size) == 32 - size

\* The padding of a Uint word (fuzzer.rs:65).
padded_bytes_len(size) == 32 - size \div 8

\* random with the draw put at the head of the word and the padding after it.
random_left_aligned(self, s) ==
    CASE self.tag = "Uint" ->
            IF self.size \in {8, 16, 32, 64, 128, 256}
            THEN Ok(gen(self.size \div 8, s) \o Zeros(padded_bytes_len(self.size)))
            ELSE Panic("internal error: entered unreachable code", "ParamKind::random")
      [] self.tag = "Address" -> Ok(gen(20, s) \o Zeros(12))
      [] OTHER -> Panic("not implemented", "ParamKind::random")

\* ParamKind::random, with the seed of its draw
random(self, s) ==
    CASE self.tag = "Uint" ->
            IF self.size \in {8, 16, 32, 64, 128, 256}
            THEN Ok(Zeros(padded_bytes_len(self.size)) \o gen(self.size \div 8, s))
            ELSE Panic("internal error: entered unreachable code", "ParamKind::random")
      [] self.tag = "Address" -> Ok(Zeros(12) \o gen(20, s))
      [] OTHER -> Panic("not implemented", "ParamKind::random")

-----------------------------------------------------------------------------
(* fuzzer.rs: function_selector and SolidityFuzzer *)

\* function_selector: the first four bytes of the Keccak-256 hash of the
\* signature, tabulated for the signatures the model uses.
function_selector(signature) ==
    CASE signature = "setUp()"                    -> <<10, 146, 84, 228>>
      [] signature = "inv()"                      -> <<3, 45, 9, 97>>
      [] signature = "invariant_neverFalse()"     -> <<214, 231, 56, 245>>
      [] signature = "inc()"                      -> <<55, 19, 3, 192>>
      [] signature = "set(uint8)"                 -> <<36, 184, 186, 95>>
      [] signature = "pay(uint8,address)"         -> <<140, 67, 189, 219>>
      [] signature = "put(bytes)"                 -> <<148, 244, 113, 70>>
      [] signature = "odd(uint24)"                -> <<157, 46, 78, 101>>
      [] signature = "mix(uint16,uint256)"        -> <<70, 65, 5, 199>>
      [] signature = "two(uint32,uint64)"         -> <<254, 160, 145, 58>>
      [] signature = "top(uint128)"               -> <<44, 50, 67, 108>>

\* param_type.join(",")
RECURSIVE join(_, _)
join(strs, sep) ==
    IF Len(strs) = 0 THEN ""
    ELSE IF Len(strs) = 1 THEN strs[1]
    ELSE strs[1] \o sep \o join(Tail(strs), sep)

\* fuzzer.rs:122-123
signature_of(parsed_function) ==
    parsed_function.name \o "(" \o join(parsed_function.inputs, ",") \o ")"

\* The FunctionSpec with its kinds collected in reverse.
FunctionSpecOf_reversed(parsed_function) ==
    [selector |-> function_selector(signature_of(parsed_function)),
     params   |-> [i \in 1..Len(parsed_function.inputs) |->
                      from_string(parsed_function.inputs[
                          Len(parsed_function.inputs) + 1 - i]).val],
     name     |-> parsed_function.name]

\* The FunctionSpec built from one ParsedFunction whose types all parse.
FunctionSpecOf(parsed_function) ==
    [selector |-> function_selector(signature_of(parsed_function)),
     params   |-> [i \in 1..Len(parsed_function.inputs) |->
                      from_string(parsed_function.inputs[i]).val],
     name     |-> parsed_function.name]

\* SolidityFuzzer::new: the functions, or the panic of the first type name
\* that from_string does not implement.
new(abi) ==
    IF \E i \in 1..Len(abi) : \E j \in 1..Len(abi[i].inputs) :
           ~from_string(abi[i].inputs[j]).ok
    THEN Panic("not implemented", "ParamKind::from_string")
    ELSE Ok([i \in 1..Len(abi) |-> FunctionSpecOf(abi[i])])

\* The loop of fuzzer.rs:142-144 over params[from..]: the words appended to
\* acc, or the panic of the first kind random does not implement.
RECURSIVE extend_params(_, _, _, _)
extend_params(acc, params, seeds, from) ==
    IF from > Len(params) THEN Ok(acc)
    ELSE LET w == random(params[from], seeds[from])
         IN  IF w.ok THEN extend_params(acc \o w.val, params, seeds, from + 1)
             ELSE w

\* generate_random_calldata that emits the selector of the first function
\* whatever function was picked.
generate_random_calldata_first(fns, idx, seeds) ==
    IF Len(fns) = 0
    THEN Panic("cannot sample empty range", "SolidityFuzzer::generate_random_calldata")
    ELSE extend_params(fns[1].selector, fns[idx].params, seeds, 1)

\* SolidityFuzzer::generate_random_calldata, with idx the 1-based draw of
\* gen_range and seeds the seed of each parameter's draw.
generate_random_calldata(fns, idx, seeds) ==
    IF Len(fns) = 0
    THEN Panic("cannot sample empty range", "SolidityFuzzer::generate_random_calldata")
    ELSE extend_params(fns[idx].selector, fns[idx].params, seeds, 1)

-----------------------------------------------------------------------------
(* evm.rs: the answers of revm and the wrapper Evm *)

\* An ExecutionResult of transact_commit: kind is Success, Revert or Halt, or
\* EVMError when transact_commit returns Err; a Success carries an Output.
CallOutput(data) == [variant |-> "Call", data |-> data, address |-> <<>>]

CreateOutput(addr) == [variant |-> "Create", data |-> <<>>, address |-> addr]

Success(o) == [kind |-> "Success", output |-> o]

Failure(kind) == [kind |-> kind, output |-> CallOutput(<<>>)]

Failures == {Failure("Revert"), Failure("Halt"), Failure("EVMError")}

\* transact_success_or_panic that panics on a halt only and hands a revert's
\* output back.
transact_success_or_panic_revert_ok(res) ==
    CASE res.kind = "EVMError" ->
            Panic("called Result::unwrap() on an Err value",
                  "Evm::transact_success_or_panic")
      [] res.kind \in {"Success", "Revert"} -> Ok(res.output)
      [] res.kind = "Halt" ->
            Panic("Transaction halts unexpectedly", "Evm::transact_success_or_panic")

\* Evm::transact_success_or_panic on the answer res of transact_commit
transact_success_or_panic(res) ==
    CASE res.kind = "EVMError" ->
            Panic("called Result::unwrap() on an Err value",
                  "Evm::transact_success_or_panic")
      [] res.kind = "Success" -> Ok(res.output)
      [] res.kind = "Revert" ->
            Panic("Transaction reverts", "Evm::transact_success_or_panic")
      [] res.kind = "Halt" ->
            Panic("Transaction halts unexpectedly", "Evm::transact_success_or_panic")

\* Evm::create: the created address
create(res) ==
    LET r == transact_success_or_panic(res)
    IN  IF ~r.ok THEN r
        ELSE IF r.val.variant = "Create" THEN Ok(r.val.address)
        ELSE Panic("internal error: entered unreachable code", "Evm::create")

\* Evm::call: the return data
call(res) ==
    LET r == transact_success_or_panic(res)
    IN  IF ~r.ok THEN r
        ELSE IF r.val.variant = "Call" THEN Ok(r.val.data)
        ELSE Panic("internal error: entered unreachable code", "Evm::call")

\* One transaction as revm saw it: the call site in main.rs that issued it,
\* the TxEnv's transact_to and data, and revm's answer.
Tx(site, to, data, res) ==
    [site |-> site, to |-> to, data |-> data, kind |-> res.kind,
     out |-> res.output.data, created |-> res.output.address]

-----------------------------------------------------------------------------
(* The sample inputs *)

Fn(name, inputs) == [name |-> name, inputs |-> inputs]

\* The target interfaces solc may describe: no function; zero, one and many
\* parameters; a type name from_string accepts and random does not encode
\* (bytes); a type name from_string does not accept (uint24).
Abis ==
    { <<>>,
      <<Fn("inc", <<>>)>>,
      <<Fn("set", <<"uint8">>)>>,
      <<Fn("inc", <<>>), Fn("pay", <<"uint8", "address">>)>>,
      <<Fn("mix", <<"uint16", "uint256">>)>>,
      <<Fn("two", <<"uint32", "uint64">>)>>,
      <<Fn("top", <<"uint128">>)>>,
      <<Fn("put", <<"bytes">>)>>,
      <<Fn("inc", <<>>), Fn("put", <<"bytes">>)>>,
      <<Fn("odd", <<"uint24">>)>> }

TargetKey == "contract/contract.sol:" \o "InvariantBreaker"

CheckerKey == "contract/contract.sol:" \o "InvariantTest"

\* A contract of the solc output; bin is the string of its bytecode, held as
\* the sequence of its UTF-8 bytes (what str::as_bytes gives hex::decode).
ParsedContract(abi, bin) == [abi |-> abi, bin |-> bin]

\* parsed_result.contracts: both contracts (the checker's bin "6080" and,
\* in mixed case, "60Af"), only one of them, none, and a checker whose bin
\* is not hex: "zz", "608" (odd length), "'0" (a quote), a tab and "0", and
\* the three bytes of an accented e and "0".
SolcOutputs ==
    { [k \in {TargetKey, CheckerKey} |->
          IF k = TargetKey THEN ParsedContract(abi, <<>>)
          ELSE ParsedContract(<<>>, <<54, 48, 56, 48>>)]
      : abi \in Abis }
    \cup { [k \in {CheckerKey} |-> ParsedContract(<<>>, <<54, 48, 56, 48>>)],
           [k \in {TargetKey} |-> ParsedContract(<<Fn("inc", <<>>)>>, <<>>)],
           [k \in {} |-> ParsedContract(<<>>, <<>>)] }
    \cup { [k \in {TargetKey, CheckerKey} |->
               IF k = TargetKey THEN ParsedContract(<<Fn("inc", <<>>)>>, <<>>)
               ELSE ParsedContract(<<>>, bin)]
           : bin \in { <<54, 48, 65, 102>>, <<122, 122>>, <<54, 48, 56>>,
                       <<39, 48>>, <<9, 48>>, <<195, 169, 48>> } }

\* A decimal digit as text.
Digit(d) ==
    CASE d = 0 -> "0" [] d = 1 -> "1" [] d = 2 -> "2" [] d = 3 -> "3"
      [] d = 4 -> "4" [] d = 5 -> "5" [] d = 6 -> "6" [] d = 7 -> "7"
      [] d = 8 -> "8" [] d = 9 -> "9"

\* A natural number as Rust's Display prints it.
RECURSIVE fmt_usize(_)
fmt_usize(n) == IF n < 10 THEN Digit(n) ELSE fmt_usize(n \div 10) \o Digit(n % 10)

\* A number in lower-case hex without padding, as \u{..} escapes print it.
RECURSIVE fmt_lower_hex(_)
fmt_lower_hex(n) ==
    LET d == n % 16
        t == CASE d = 10 -> "a" [] d = 11 -> "b" [] d = 12 -> "c"
               [] d = 13 -> "d" [] d = 14 -> "e" [] d = 15 -> "f"
               [] OTHER -> Digit(d)
    IN  IF n < 16 THEN t ELSE fmt_lower_hex(n \div 16) \o t

\* The printable characters U+0020..U+005F, U+0061..U+007E and
\* U+00A1..U+00FF, in order.
PrintableLow ==
    <<" ", "!", "\"", "#", "$", "%", "&", "'", "(", ")", "*", "+",
       ",", "-", ".", "/", "0", "1", "2", "3", "4", "5", "6", "7",
       "8", "9", ":", ";", "<", "=", ">", "?", "@", "A", "B", "C",
       "D", "E", "F", "G", "H", "I", "J", "K", "L", "M", "N", "O",
       "P", "Q", "R", "S", "T", "U", "V", "W", "X", "Y", "Z", "[",
       "\\", "]", "^", "_" >>

PrintableMid ==
    <<"a", "b", "c", "d", "e", "f", "g", "h", "i", "j", "k", "l",
       "m", "n", "o", "p", "q", "r", "s", "t", "u", "v", "w", "x",
       "y", "z", "{", "|", "}", "~" >>

PrintableHigh ==
    <<"¡", "¢", "£", "¤", "¥", "¦", "§", "¨", "©", "ª", "«", "¬",
       "­", "®", "¯", "°", "±", "²", "³", "´", "µ", "¶", "·", "¸",
       "¹", "º", "»", "¼", "½", "¾", "¿", "À", "Á", "Â", "Ã", "Ä",
       "Å", "Æ", "Ç", "È", "É", "Ê", "Ë", "Ì", "Í", "Î", "Ï", "Ð",
       "Ñ", "Ò", "Ó", "Ô", "Õ", "Ö", "×", "Ø", "Ù", "Ú", "Û", "Ü",
       "Ý", "Þ", "ß", "à", "á", "â", "ã", "ä", "å", "æ", "ç", "è",
       "é", "ê", "ë", "ì", "í", "î", "ï", "ð", "ñ", "ò", "ó", "ô",
       "õ", "ö", "÷", "ø", "ù", "ú", "û", "ü", "ý", "þ", "ÿ" >>

\* The byte c as a char (c as char: the code point of that number) in the
\* Debug form of char: in single quotes, with the escapes \0 \t \n \r \\ \',
\* \u{..} for the characters that are not printable (the controls, U+007F to
\* U+00A0 and the soft hyphen U+00AD), and every other character as it is.
char_debug(c) ==
    CASE c = 0  -> "'\\0'"
      [] c = 9  -> "'\\t'"
      [] c = 10 -> "'\\n'"
      [] c = 13 -> "'\\r'"
      [] c = 39 -> "'\\''"
      [] c = 92 -> "'\\\\'"
      [] c = 96 -> "'`'"
      [] c < 32 \/ (c >= 127 /\ c <= 160) \/ c = 173 ->
            "'\\u{" \o fmt_lower_hex(c) \o "}'"
      [] c <= 95 -> "'" \o PrintableLow[c - 31] \o "'"
      [] c <= 126 -> "'" \o PrintableMid[c - 96] \o "'"
      [] OTHER -> "'" \o PrintableHigh[c - 160] \o "'"

\* The value of the byte of a hex digit, in either case ('0'..'9',
\* 'a'..'f', 'A'..'F'); -1 for any other byte.
HexVal(c) ==
    CASE c >= 48 /\ c <= 57  -> c - 48
      [] c >= 97 /\ c <= 102 -> c - 87
      [] c >= 65 /\ c <= 70  -> c - 55
      [] OTHER -> 0 - 1

\* hex::decode(..).expect("Invalid hex in contract bytecode") on the bytes
\* of the string: an odd number of bytes is refused first, then the first
\* byte that is not a hex digit, named with its byte index; else each pair
\* of digits is one byte.
hex_decode(bin) ==
    LET bad == {i \in 1..Len(bin) : HexVal(bin[i]) < 0}
    IN  IF Len(bin) % 2 # 0
        THEN Panic("Invalid hex in contract bytecode: OddLength", "compile_solidity")
        ELSE IF bad # {}
        THEN LET i == CHOOSE k \in bad : \A j \in bad : k <= j
             IN  Panic("Invalid hex in contract bytecode: InvalidHexCharacter { c: "
                           \o char_debug(bin[i]) \o ", index: " \o fmt_usize(i - 1) \o " }",
                       "compile_solidity")
        ELSE Ok([k \in 1..(Len(bin) \div 2) |->
                    16 * HexVal(bin[2 * k - 1]) + HexVal(bin[2 * k])])

\* The address revm gives the created checker.
CheckerAddress == [i \in 1..20 |-> 16 + i]

\* What inv() may return: the target's address as a word, the same with the
\* twelve high bytes set, no data, and twenty bytes (both shorter than a word).
TargetWord == Zeros(12) \o [i \in 1..20 |-> 64 + i]

DirtyTargetWord == [i \in 1..12 |-> 255] \o [i \in 1..20 |-> 128 + i]

InvReturns == {TargetWord, DirtyTargetWord, <<>>, Zeros(20)}

\* What invariant_neverFalse() may return: false, true, a last byte of 2, a
\* non-zero high byte, no data, and 33 bytes.
BoolWord(b) == Zeros(31) \o <<b>>

CheckReturns ==
    { BoolWord(0), BoolWord(1), BoolWord(2), <<1>> \o Zeros(30) \o <<1>>,
      <<>>, Zeros(32) \o <<1>> }

-----------------------------------------------------------------------------
(* main.rs *)

\* compile_solidity from the parsed solc output on (main.rs:73-96)
compile_solidity(parsed_result) ==
    IF TargetKey \notin DOMAIN parsed_result
    THEN Panic("Target not found", "compile_solidity")
    ELSE IF CheckerKey \notin DOMAIN parsed_result
    THEN Panic("Invariant checker not found", "compile_solidity")
    ELSE LET bin == hex_decode(parsed_result[CheckerKey].bin)
         IN  IF ~bin.ok THEN bin
             ELSE Ok([target_abi |-> parsed_result[TargetKey].abi,
                      invariant_checker |-> <<bin.val, parsed_result[CheckerKey].abi>>])

\* The panic of the slice &target[12..32] on data shorter than 32 bytes: the
\* start of the range is checked against the length before its end.
slice_index_fail(len) ==
    Panic((IF len < 12 THEN "range start index 12" ELSE "range end index 32")
              \o " out of range for slice of length " \o fmt_usize(len),
          "deploy_target")

\* The address taken from the head of the word instead of its end.
target_of_head(target) ==
    IF Len(target) < 32
    THEN slice_index_fail(Len(target))
    ELSE Ok(SubSeq(target, 1, 20))

\* Address::from_slice(&target[12..32]) (main.rs:108)
target_of(target) ==
    IF Len(target) < 32
    THEN slice_index_fail(Len(target))
    ELSE Ok(SubSeq(target, 13, 32))

\* check_invariant without its two assertions: anything but a word that
\* ends in 1 is the verdict false.
check_invariant_unasserted(ret) ==
    Ok(IF Len(ret) >= 32 THEN ret[32] = 1 ELSE FALSE)

\* check_invariant on the return data of its call (main.rs:117-120)
check_invariant(ret) ==
    IF Len(ret) # 32
    THEN Panic("assertion left == right failed", "check_invariant")
    ELSE IF SubSeq(ret, 1, 31) # Zeros(31)
    THEN Panic("assertion left == right failed", "check_invariant")
    ELSE Ok(ret[32] = 1)

\* catch_unwind that swallows the panic of the call.
catch_unwind_ok(r) == "Ok"

\* catch_unwind around the target call (main.rs:140-142)
catch_unwind(r) == IF r.ok THEN "Ok" ELSE "Err"

\* The invariant check chained with a combinator that runs it on Err too.
and_then_always(res) == "check"

\* and_then (main.rs:143-148): where main goes after the target call
and_then(res) == IF res = "Ok" THEN "check" ELSE "branch"

\* The arms of the match exchanged.
verdict_result_swapped(verdict) == IF verdict THEN "Err" ELSE "Ok"

\* The match on the verdict of check_invariant (main.rs:144-147)
verdict_result(verdict) == IF verdict THEN "Ok" ELSE "Err"

\* The process dies of an uncaught panic.
Die(r) ==
    /\ pc' = "panic"
    /\ abort' = PanicOf(r)

\* Nothing is compiled yet.
NoOutput == [target_abi |-> <<>>, invariant_checker |-> <<<<>>, <<>>>>]

\* No type name is being encoded: main is what runs.
NotEncoding == [type_name |-> "", seed |-> 0, done |-> FALSE, word |-> Ok(<<>>)]

Init ==
    /\ pc = "compile"
    /\ output = NoOutput
    /\ invariant_checker_address = <<>>
    /\ target_address = <<>>
    /\ functions = <<>>
    /\ iterations = 0
    /\ picks = <<>>
    /\ calldata = <<>>
    /\ result = "none"
    /\ log = <<>>
    /\ stdout = <<>>
    /\ abort = NoPanic
    /\ encoded = NotEncoding

\* main.rs:128
Compile ==
    /\ pc = "compile"
    /\ \E parsed_result \in SolcOutputs :
          LET compiled == compile_solidity(parsed_result)
          IN  IF compiled.ok
              THEN /\ output' = compiled.val
                   /\ pc' = "create"
                   /\ abort' = abort
              ELSE /\ Die(compiled)
                   /\ output' = output
    /\ UNCHANGED <<encoded, invariant_checker_address, target_address, functions, iterations,
                   picks, calldata, result, log, stdout>>

\* main.rs:129-131: deploy_invariant_checker
Create ==
    /\ pc = "create"
    /\ \E res \in {Success(CreateOutput(CheckerAddress))} \cup Failures :
          LET r == create(res)
          IN  /\ log' = Append(log, Tx("create", <<>>, output.invariant_checker[1], res))
              /\ IF r.ok
                 THEN /\ invariant_checker_address' = r.val
                      /\ pc' = "setUp"
                      /\ abort' = abort
                 ELSE /\ Die(r)
                      /\ invariant_checker_address' = invariant_checker_address
    /\ UNCHANGED <<encoded, output, target_address, functions, iterations, picks,
                   calldata, result, stdout>>

\* main.rs:104-105: deploy_target's call of setUp()
SetUp ==
    /\ pc = "setUp"
    /\ \E res \in {Success(CallOutput(<<>>))} \cup Failures :
          LET r == call(res)
          IN  /\ log' = Append(log, Tx("setUp", invariant_checker_address,
                                       function_selector("setUp()"), res))
              /\ IF r.ok
                 THEN /\ pc' = "inv"
                      /\ abort' = abort
                 ELSE Die(r)
    /\ UNCHANGED <<encoded, output, invariant_checker_address, target_address, functions,
                   iterations, picks, calldata, result, stdout>>

\* main.rs:106-108: deploy_target's call of inv()
Inv ==
    /\ pc = "inv"
    /\ \E res \in {Success(CallOutput(w)) : w \in InvReturns} \cup Failures :
          LET r == call(res)
              t == IF r.ok THEN target_of(r.val) ELSE r
          IN  /\ log' = Append(log, Tx("inv", invariant_checker_address,
                                       function_selector("inv()"), res))
              /\ IF t.ok
                 THEN /\ target_address' = t.val
                      /\ pc' = "new"
                      /\ abort' = abort
                 ELSE /\ Die(t)
                      /\ target_address' = target_address
    /\ UNCHANGED <<encoded, output, invariant_checker_address, functions, iterations,
                   picks, calldata, result, stdout>>

\* main.rs:134-135
New ==
    /\ pc = "new"
    /\ LET f == new(output.target_abi)
       IN  IF f.ok
           THEN /\ functions' = f.val
                /\ pc' = "loop"
                /\ abort' = abort
           ELSE /\ Die(f)
                /\ functions' = functions
    /\ UNCHANGED <<encoded, output, invariant_checker_address, target_address, iterations,
                   picks, calldata, result, log, stdout>>

\* main.rs:137-138: the head of an iteration
Generate ==
    /\ pc = "loop"
    /\ iterations < MaxIter
    /\ iterations' = iterations + 1
    /\ \E idx \in (IF Len(functions) = 0 THEN {0} ELSE 1..Len(functions)) :
       \E seeds \in [1..(IF idx = 0 THEN 0 ELSE Len(functions[idx].params)) -> DrawSeeds] :
          LET c == generate_random_calldata(functions, idx, seeds)
          IN  /\ picks' = (IF idx = 0 THEN picks ELSE Append(picks, idx))
              /\ IF c.ok
                 THEN /\ calldata' = c.val
                      /\ pc' = "call"
                      /\ abort' = abort
                 ELSE /\ Die(c)
                      /\ calldata' = calldata
    /\ UNCHANGED <<encoded, output, invariant_checker_address, target_address, functions,
                   result, log, stdout>>

\* main.rs:140-143: the target call inside catch_unwind
TargetCall ==
    /\ pc = "call"
    /\ \E res \in {Success(CallOutput(<<>>))} \cup Failures :
          /\ log' = Append(log, Tx("target", target_address, calldata, res))
          /\ result' = catch_unwind(call(res))
          /\ pc' = and_then(result')
    /\ UNCHANGED <<encoded, output, invariant_checker_address, target_address, functions,
                   iterations, picks, calldata, stdout, abort>>

\* main.rs:144-147 and 111-121: check_invariant, outside catch_unwind
CheckInvariant ==
    /\ pc = "check"
    /\ \E res \in {Success(CallOutput(w)) : w \in CheckReturns} \cup Failures :
          LET r == call(res)
              v == IF r.ok THEN check_invariant(r.val) ELSE r
          IN  /\ log' = Append(log, Tx("check", invariant_checker_address,
                                       function_selector("invariant_neverFalse()"), res))
              /\ IF v.ok
                 THEN /\ result' = verdict_result(v.val)
                      /\ pc' = "branch"
                      /\ abort' = abort
                 ELSE /\ Die(v)
                      /\ result' = result
    /\ UNCHANGED <<encoded, output, invariant_checker_address, target_address, functions,
                   iterations, picks, calldata, stdout>>

\* The report with the count of the iterations completed before this one.
Report_completed(n, input) == [iterations |-> n - 1, calldata |-> input]

\* The crash report (main.rs:151-152)
Report(n, input) == [iterations |-> n, calldata |-> input]

\* The test of line 150 never taken.
is_err_never(res) == FALSE

\* main.rs:150-154: whether the iteration ends the campaign
is_err(res) == res = "Err"

\* main.rs:150-159: report and break, or go round again
Branch ==
    /\ pc = "branch"
    /\ IF is_err(result)
       THEN /\ stdout' = Append(stdout, Report(iterations, calldata))
            /\ pc' = "done"
       ELSE /\ stdout' = stdout
            /\ pc' = "loop"
    /\ UNCHANGED <<encoded, output, invariant_checker_address, target_address, functions,
                   iterations, picks, calldata, result, log, abort>>

Next ==
    \/ Compile
    \/ Create
    \/ SetUp
    \/ Inv
    \/ New
    \/ Generate
    \/ TargetCall
    \/ CheckInvariant
    \/ Branch

Spec == Init /\ [][Next]_vars

\* main runs on until it breaks or panics.
FairSpec == Spec /\ WF_vars(Next)

-----------------------------------------------------------------------------
(* ParamKind::random on its own *)

\* The type names from_string accepts.
ParsedTypeNames ==
    {"address", "bytes", "uint8", "uint16", "uint32", "uint64", "uint128", "uint256"}

\* The seeds of the draws random is applied to on its own.
EncSeeds == {0, 1, 7, 37, 85, 128, 171, 255}

\* A kind from_string built and a draw, with random still to be applied.
EncInit ==
    /\ pc = "random"
    /\ output = NoOutput
    /\ invariant_checker_address = <<>>
    /\ target_address = <<>>
    /\ functions = <<>>
    /\ iterations = 0
    /\ picks = <<>>
    /\ calldata = <<>>
    /\ result = "none"
    /\ log = <<>>
    /\ stdout = <<>>
    /\ abort = NoPanic
    /\ \E name \in ParsedTypeNames : \E s \in EncSeeds :
          encoded = [type_name |-> name, seed |-> s, done |-> FALSE, word |-> Ok(<<>>)]

\* fuzzer.rs:46-84: random applied to the kind of the type name
Encode ==
    /\ pc = "random"
    /\ ~encoded.done
    /\ encoded' = [encoded EXCEPT
                      !.done = TRUE,
                      !.word = random(from_string(encoded.type_name).val, encoded.seed)]
    /\ UNCHANGED <<pc, output, invariant_checker_address, target_address, functions,
                   iterations, picks, calldata, result, log, stdout, abort>>

EncNext == Encode

EncSpec == EncInit /\ [][EncNext]_vars

-----------------------------------------------------------------------------
(* The states of the loop, read off the log and the position of main *)

\* The iteration failed and main is about to report it.
CrashDetected == pc = "branch" /\ result = "Err"

\* The report is printed and main has left the loop.
Reported == pc = "done"

\* The indices of the log's transactions issued at a call site.
At(site) == {i \in DOMAIN log : log[i].site = site}

\* The verdict check_invariant reads off return data, where it reads one.
HasVerdict(tx) == tx.kind = "Success" /\ check_invariant(tx.out).ok

VerdictOf(tx) == check_invariant(tx.out).val

\* The largest element of a non-empty set of numbers.
Last(S) == CHOOSE i \in S : \A j \in S : j <= i

-----------------------------------------------------------------------------
(* C1 *)

\* C1: when the target call halts abnormally, the iteration is classified as
\* a crash at once: the halting target call is the last transaction revm ever
\* sees (no invariant check, no other call), and main is about to report or
\* has reported.
C1_FaultSkipsInvariantCheck ==
    \A i \in At("target") :
        log[i].kind = "Halt" =>
            /\ i = Len(log)
            /\ CrashDetected \/ Reported
            /\ Cardinality(At("check")) = iterations - 1

\* A target call halted in the second iteration and the crash is reported.
C1_Witness ==
    /\ Reported
    /\ iterations = 2
    /\ log[Len(log)].site = "target"
    /\ log[Len(log)].kind = "Halt"

-----------------------------------------------------------------------------
(* C2 *)

\* C2: a target call that succeeded is followed by exactly one invariant
\* check and nothing else in between; a false verdict is the last
\* transaction and leads to the report; a true verdict never leads to the
\* report: main stays in the loop and the next iteration starts with it.
C2_VerdictDecides ==
    /\ \A i \in At("target") :
          log[i].kind = "Success" =>
              /\ i = Len(log) => pc = "check"
              /\ i < Len(log) => log[i + 1].site = "check"
              /\ i + 1 < Len(log) => log[i + 2].site = "target"
    /\ \A i \in At("check") :
          HasVerdict(log[i]) =>
              IF VerdictOf(log[i])
              THEN /\ i < Len(log) => log[i + 1].site = "target"
                   /\ i = Len(log) =>
                         /\ stdout = <<>>
                         /\ \/ pc = "branch" /\ result = "Ok"
                                  /\ iterations = Cardinality(At("check"))
                            \/ pc = "loop" /\ iterations = Cardinality(At("check"))
                            \/ pc \in {"call", "panic"}
                                  /\ iterations = Cardinality(At("check")) + 1
              ELSE /\ i = Len(log)
                   /\ CrashDetected \/ Reported

\* The first check answered true and the loop went on; the second answered
\* false and the loop reported.
C2_Witness ==
    /\ Reported
    /\ iterations = 2
    /\ Cardinality(At("check")) = 2
    /\ log[Len(log)].site = "check"
    /\ log[Len(log)].out = BoolWord(0)
    /\ log[Len(log) - 2].out = BoolWord(1)

-----------------------------------------------------------------------------
(* C3 *)

\* C3: nothing is printed before the loop is left; once it is left, exactly
\* one report is printed, carrying the iteration count and the calldata that
\* the target call of this same iteration sent (the count of target calls is
\* the count reported, and that call is the last transaction or the one
\* before the failed check); and then main is over: it takes no further
\* step.
C3_ReportedIsTerminal ==
    /\ stdout # <<>> => Reported
    /\ Reported =>
          /\ Len(stdout) = 1
          /\ stdout[1].iterations = iterations
          /\ stdout[1].calldata = calldata
          /\ At("target") # {}
          /\ Cardinality(At("target")) = stdout[1].iterations
          /\ Last(At("target")) >= Len(log) - 1
          /\ log[Last(At("target"))].data = stdout[1].calldata
          /\ ~ENABLED Next

\* A report of the third iteration, with calldata that carries arguments.
C3_Witness ==
    /\ Reported
    /\ stdout[1].iterations = 3
    /\ Len(stdout[1].calldata) > 4
    /\ \E w \in DOMAIN calldata : calldata[w] # 0 /\ w > 4

-----------------------------------------------------------------------------
(* C4 *)

\* A return word that encodes a boolean: 31 zero bytes, then 0 or 1.
IsBoolWord(w) == Len(w) = 32 /\ SubSeq(w, 1, 31) = Zeros(31) /\ w[32] \in {0, 1}

\* C4 (as claimed): a 32-byte return word of the invariant check that is not
\* the encoding of a boolean ends the process with a fatal error and is
\* never taken for a verdict: main does not go on to its branch with it.
C4_StrictBoolean ==
    \A i \in At("check") :
        (log[i].kind = "Success" /\ Len(log[i].out) = 32 /\ ~IsBoolWord(log[i].out)) =>
            /\ pc = "panic"
            /\ abort.at = "check_invariant"
            /\ stdout = <<>>

-----------------------------------------------------------------------------
(* C5 *)

\* The scenario of C5 so far, for a target whose invariant is false from the
\* N-th call of its m-th function on: nothing has panicked; once the
\* functions are built there is an m-th one; the generator picked it every
\* time; every target call succeeded; and the k-th invariant check answered
\* true for k < N and false from then on.
Scenario(N, m) ==
    /\ abort = NoPanic
    /\ pc \in {"loop", "call", "check", "branch", "done"} => m <= Len(functions)
    /\ \A j \in DOMAIN picks : picks[j] = m
    /\ \A i \in At("target") : log[i].kind = "Success"
    /\ \A i \in At("check") :
          /\ log[i].kind = "Success"
          /\ log[i].out =
                BoolWord(IF Cardinality({j \in At("check") : j <= i}) < N THEN 1 ELSE 0)

\* The crash is reported at an iteration count of at most N, with calldata
\* that starts with the selector of the m-th function.
ReportedWithin(N, m) ==
    /\ Reported
    /\ Len(stdout) = 1
    /\ stdout[1].iterations <= N
    /\ SubSeq(stdout[1].calldata, 1, 4) = functions[m].selector

\* C5: every run that keeps to the scenario, for a threshold N and a
\* function m, comes to report the crash within N iterations, with the
\* selector of function m at the head of the reported calldata.
C5_EndToEnd ==
    \A N \in 1..MaxIter : \A m \in 1..2 :
        <>(~Scenario(N, m) \/ ReportedWithin(N, m))

\* The scenario with N = 2 on the second function of an interface, run to
\* its report.
C5_Witness ==
    /\ Scenario(2, 2)
    /\ ReportedWithin(2, 2)
    /\ iterations = 2

-----------------------------------------------------------------------------
(* C6 *)

\* The type names the parser supports.
SupportedTypeNames ==
    {"address", "bytes", "uint8", "uint16", "uint32", "uint64", "uint128", "uint256"}

\* The interface main got from the compiler uses an unsupported type name.
UsesUnsupported ==
    \E i \in DOMAIN output.target_abi : \E j \in DOMAIN output.target_abi[i].inputs :
        output.target_abi[i].inputs[j] \notin SupportedTypeNames

\* The process died of the panic of from_string.
UnsupportedTypeKind == pc = "panic" /\ abort.at = "ParamKind::from_string"

\* C6 (as claimed): when the unsupported type name is detected, nothing has
\* been issued to the execution environment: no deploy and no call.
C6_NothingIssuedBeforeUnsupported ==
    UnsupportedTypeKind => log = <<>>

\* C6 (amended): with an unsupported type name in the target interface the
\* loop is never entered: no target call and no invariant check is issued,
\* no iteration is counted and nothing is reported; and when from_string
\* panics, the deploy of the checker and the calls of setUp() and inv() are
\* what has been issued, each once, in this order, and each succeeded.
C6_NoIterationBeforeUnsupported ==
    /\ UsesUnsupported =>
          /\ pc \in {"create", "setUp", "inv", "new", "panic"}
          /\ At("target") = {} /\ At("check") = {}
          /\ iterations = 0
          /\ picks = <<>>
          /\ stdout = <<>>
    /\ UnsupportedTypeKind =>
          /\ UsesUnsupported
          /\ [i \in DOMAIN log |-> log[i].site] = <<"create", "setUp", "inv">>
          /\ \A i \in DOMAIN log : log[i].kind = "Success"

\* from_string has panicked on the interface with uint24.
C6_Witness ==
    /\ UnsupportedTypeKind
    /\ UsesUnsupported
    /\ Len(log) = 3

-----------------------------------------------------------------------------
(* C7 *)

\* C7 (as claimed): once the functions are built, no calldata generation
\* fails on a parameter kind: the panic of an unimplemented kind is never
\* raised by random inside an iteration.
C7_UnsupportedOnlyAtSetup ==
    ~(pc = "panic" /\ iterations >= 1 /\ abort.at = "ParamKind::random")

-----------------------------------------------------------------------------
(* C8 *)

\* C8 (as claimed): with no function to pick from, calldata generation does
\* not panic.
C8_EmptyInterfaceIsNoPanic ==
    (functions = <<>> /\ iterations >= 1) => pc # "panic"

-----------------------------------------------------------------------------
(* C9 *)

\* A step of the setup failed: a contract is missing from the compiler
\* output, or the deploy, setUp() or inv() did not succeed.
SetupFailed ==
    \/ abort.msg \in {"Target not found", "Invariant checker not found"}
    \/ \E i \in At("create") \cup At("setUp") \cup At("inv") : log[i].kind # "Success"

\* C9: after a failed setup step the process is dead and stays so: the
\* failed transaction is the last one, no setup step was issued twice, no
\* target call and no invariant check is ever issued, no iteration is
\* counted and nothing is reported.
C9_SetupFailureIsFatal ==
    SetupFailed =>
        /\ pc = "panic"
        /\ ~ENABLED Next
        /\ \A i \in DOMAIN log : log[i].kind # "Success" => i = Len(log)
        /\ \A site \in {"create", "setUp", "inv"} : Cardinality(At(site)) <= 1
        /\ At("target") = {} /\ At("check") = {}
        /\ iterations = 0
        /\ stdout = <<>>

\* inv() reverted after the deploy and setUp() succeeded.
C9_Witness ==
    /\ pc = "panic"
    /\ Len(log) = 3
    /\ log[3].site = "inv"
    /\ log[3].kind = "Revert"

-----------------------------------------------------------------------------
(* C10 *)

\* The number of random bytes of a kind that random encodes.
DrawnBytes(kind) == IF kind.tag = "Address" THEN 20 ELSE kind.size \div 8

\* w is a word random may produce for the kind: 32 bytes, zero but for the
\* bytes of a draw at its end.
WordOf(kind, w) ==
    /\ Len(w) = 32
    /\ \A b \in 1..(32 - DrawnBytes(kind)) : w[b] = 0
    /\ \E sd \in DrawSeeds : \A b \in 1..DrawnBytes(kind) :
          w[32 - DrawnBytes(kind) + b] = (sd * b) % 256

\* C10: the calldata handed to the target call is the selector of the
\* function that was picked followed by one 32-byte word per parameter, the
\* i-th word a word of the i-th declared kind: 4 + 32*k bytes in all.
C10_CalldataLayout ==
    pc = "call" =>
        LET f == functions[picks[Len(picks)]]
            k == Len(f.params)
        IN  /\ Len(calldata) = 4 + 32 * k
            /\ SubSeq(calldata, 1, 4) = f.selector
            /\ \A i \in 1..k :
                  WordOf(f.params[i], SubSeq(calldata, 4 + 32 * (i - 1) + 1, 4 + 32 * i))

\* Calldata for a function of two parameters with non-zero draws; an
\* earlier iteration picked a function of none.
C10_Witness ==
    /\ pc = "call"
    /\ Len(picks) = 2
    /\ Len(functions[picks[1]].params) = 0
    /\ Len(functions[picks[2]].params) = 2
    /\ Len(calldata) = 68
    /\ calldata[36] # 0 /\ calldata[68] # 0

-----------------------------------------------------------------------------
(* C11 *)

\* The number of bytes random draws for a type name it encodes.
BytesDrawn(name) ==
    CASE name = "uint8"   -> 1
      [] name = "uint16"  -> 2
      [] name = "uint32"  -> 4
      [] name = "uint64"  -> 8
      [] name = "uint128" -> 16
      [] name = "uint256" -> 32
      [] name = "address" -> 20

\* C11: for Uint(n), n in {8, 16, 32, 64, 128, 256}, and for Address, and for
\* every draw, random returns exactly 32 bytes: the bytes before the last
\* n/8 (for Address, the first 12) are zero and the last n/8 (the last 20)
\* are the drawn bytes in the order drawn.
C11_RightAlignedWord ==
    (encoded.done /\ encoded.type_name # "bytes") =>
        LET n == BytesDrawn(encoded.type_name)
            w == encoded.word
        IN  /\ w.ok
            /\ Len(w.val) = 32
            /\ \A b \in 1..(32 - n) : w.val[b] = 0
            /\ \A b \in 1..n : w.val[32 - n + b] = (encoded.seed * b) % 256

\* A uint64 encoded from a draw of eight different non-zero bytes.
C11_Witness ==
    /\ encoded.done
    /\ encoded.type_name = "uint64"
    /\ encoded.seed = 7
    /\ encoded.word.val[25] = 7
    /\ encoded.word.val[32] = 56

-----------------------------------------------------------------------------
(* C12 *)

\* deploy_target has returned: main is building the fuzzer, is in the loop,
\* has left it, or died later than the setup.
SetupDone ==
    \/ pc \in {"new", "loop", "call", "check", "branch", "done"}
    \/ pc = "panic" /\ (abort.at = "ParamKind::from_string" \/ iterations >= 1)

\* C12: once the setup is done, the first three transactions are the deploy
\* of the checker's bytecode, setUp() and inv() on the created checker, in
\* this order, and no later transaction is one of these; the target address
\* is bytes 12..31 of the word inv() returned and the checker address is the
\* created one; and every later transaction is a target call to that target
\* address or an invariant check to that checker address.
C12_SetupAndAddresses ==
    SetupDone =>
        /\ Len(log) >= 3
        /\ log[1].site = "create"
        /\ log[1].data = output.invariant_checker[1]
        /\ log[2].site = "setUp"
        /\ log[2].to = log[1].created
        /\ log[2].data = <<10, 146, 84, 228>>
        /\ log[3].site = "inv"
        /\ log[3].to = log[1].created
        /\ log[3].data = <<3, 45, 9, 97>>
        /\ \A i \in 1..3 : log[i].kind = "Success"
        /\ \A i \in 4..Len(log) : log[i].site \in {"target", "check"}
        /\ invariant_checker_address = log[1].created
        /\ Len(target_address) = 20
        /\ \A b \in 1..20 : target_address[b] = log[3].out[12 + b]
        /\ \A i \in At("target") : log[i].to = target_address
        /\ \A i \in At("check") : log[i].to = invariant_checker_address

\* The second iteration's check is about to be issued, with a target taken
\* from a word of inv() whose high bytes are set.
C12_Witness ==
    /\ pc = "check"
    /\ iterations = 2
    /\ log[3].out = DirtyTargetWord
    /\ log[Len(log)].to = [b \in 1..20 |-> 128 + b]
    /\ log[Len(log) - 1].to = CheckerAddress

-----------------------------------------------------------------------------
(* C13 *)

\* The k-th transaction after the three of the setup.
Running(k) == log[3 + k]

\* C13: the transactions after the setup alternate, target call first:
\* transaction 2i-1 is target call i and transaction 2i is invariant check i.
\* Every transaction but the last one succeeded, so a check is issued only
\* after its target call succeeded, and a target call is issued only after
\* the check before it returned the word for true.  A transaction is issued
\* and answered in one step of main (Evm::call returns only when
\* transact_commit has), so none is in flight when another is issued.
C13_StrictAlternation ==
    \A k \in 1..(Len(log) - 3) :
        /\ Running(k).site = (IF k % 2 = 1 THEN "target" ELSE "check")
        /\ k > 1 => Running(k - 1).kind = "Success"
        /\ (k > 1 /\ k % 2 = 1) => Running(k - 1).out = Zeros(31) \o <<1>>
        /\ (k + 1) \div 2 <= iterations

\* Target call 3 has succeeded after two rounds of call and check.
C13_Witness ==
    /\ pc = "check"
    /\ Len(log) = 8
    /\ iterations = 3
    /\ log[8].site = "target"
    /\ log[8].kind = "Success"

-----------------------------------------------------------------------------
(* C14 *)

\* The calldata payloads generate_random_calldata has returned so far: one
\* per target call issued, and the one main holds for the call it is about
\* to issue.
PayloadsGenerated == Cardinality(At("target")) + (IF pc = "call" THEN 1 ELSE 0)

\* C14 (as claimed): the iteration count is 0 until the loop starts, equals
\* at every point the number of calldata payloads generated so far, and the
\* count in the crash report is the number of target calls issued, which is
\* at least 1.
C14_CountIsPayloadsGenerated ==
    /\ pc \in {"compile", "create", "setUp", "inv", "new"} => iterations = 0
    /\ iterations = PayloadsGenerated
    /\ Reported =>
          /\ stdout[1].iterations = Cardinality(At("target"))
          /\ stdout[1].iterations >= 1

-----------------------------------------------------------------------------
(* C15 *)

\* C15: a target call that reverted and a target call that halted end the
\* iteration alike: the call is the last transaction (the invariant check
\* of the iteration is not issued), nothing has panicked out of main, the
\* iteration is a crash, and the report, once printed, carries the count of
\* target calls and the calldata of this call, the same for both.
C15_RevertHandledAsFault ==
    \A i \in At("target") :
        log[i].kind \in {"Revert", "Halt"} =>
            /\ i = Len(log)
            /\ abort = NoPanic
            /\ result = "Err"
            /\ Cardinality(At("check")) = iterations - 1
            /\ CrashDetected \/ Reported
            /\ CrashDetected => stdout = <<>>
            /\ Reported =>
                  stdout = <<[iterations |-> Cardinality(At("target")),
                              calldata |-> log[i].data]>>

\* The target call of the second iteration reverted and the crash is
\* reported.
C15_Witness ==
    /\ Reported
    /\ iterations = 2
    /\ log[Len(log)].site = "target"
    /\ log[Len(log)].kind = "Revert"
    /\ stdout[1].iterations = 2

-----------------------------------------------------------------------------
(* C16 *)

\* SolidityFuzzer::new has returned.
FunctionsBuilt ==
    \/ pc \in {"loop", "call", "check", "branch", "done"}
    \/ pc = "panic" /\ iterations >= 1

\* The kind a type name the parser accepts stands for.
KindNamed(name) ==
    IF name = "address" THEN [tag |-> "Address", size |-> 0]
    ELSE IF name = "bytes" THEN [tag |-> "Bytes", size |-> 0]
    ELSE [tag |-> "Uint", size |-> 8 * BytesDrawn(name)]

\* The declared type names up to the n-th, each followed by a comma but the
\* last.
RECURSIVE Listed(_, _)
Listed(names, n) ==
    IF n = 0 THEN ""
    ELSE Listed(names, n - 1) \o (IF n = 1 THEN "" ELSE ",") \o names[n]

\* C16: the functions built are one per declared function, in the order
\* declared; each has the declared name, one kind per declared input in the
\* order declared, and the selector of the text name(type1,...,typeN) made
\* of the declared type names; and building them again from the same
\* interface gives the same functions.
C16_FunctionsPreserveInterface ==
    FunctionsBuilt =>
        LET abi == output.target_abi
        IN  /\ Len(functions) = Len(abi)
            /\ \A i \in 1..Len(abi) :
                  /\ functions[i].name = abi[i].name
                  /\ Len(functions[i].params) = Len(abi[i].inputs)
                  /\ \A j \in 1..Len(abi[i].inputs) :
                        functions[i].params[j] = KindNamed(abi[i].inputs[j])
                  /\ functions[i].selector =
                        function_selector(abi[i].name \o "("
                            \o Listed(abi[i].inputs, Len(abi[i].inputs)) \o ")")
            /\ new(abi).ok
            /\ new(abi).val = functions

\* The functions of the interface inc(), pay(uint8,address) are built.
C16_Witness ==
    /\ pc = "loop"
    /\ Len(functions) = 2
    /\ functions[1].name = "inc"
    /\ functions[1].params = <<>>
    /\ functions[2].name = "pay"
    /\ functions[2].params = <<Uint(8), Address>>
    /\ functions[2].selector = <<140, 67, 189, 219>>

-----------------------------------------------------------------------------
(* C17 *)

\* The invariant-check transaction did not yield return data the two
\* assertions of check_invariant accept: the call reverted, halted or could
\* not be run, or its return data is not 32 bytes that start with 31 zeros.
CheckFailed(tx) ==
    \/ tx.kind # "Success"
    \/ Len(tx.out) # 32
    \/ \E b \in 1..31 : tx.out[b] # 0

\* The process died while generating calldata.
GenerationFailed ==
    abort.at \in {"ParamKind::random", "SolidityFuzzer::generate_random_calldata"}

\* C17: an iteration is a crash, and a report is printed, only when the last
\* transaction is a target call that did not succeed or an invariant check
\* whose accepted return word is not the word for true.  A failed invariant
\* check and a failed calldata generation kill the process instead: it has
\* panicked, takes no further step, the failed check is the last
\* transaction, and no report (no count, no calldata) is printed.
C17_OnlyTargetFailureOrFalseVerdictReports ==
    /\ (CrashDetected \/ stdout # <<>>) =>
          /\ log # <<>>
          /\ LET tx == log[Len(log)]
             IN  \/ tx.site = "target" /\ tx.kind # "Success"
                 \/ tx.site = "check" /\ ~CheckFailed(tx) /\ tx.out[32] # 1
    /\ \A i \in At("check") :
          CheckFailed(log[i]) =>
              /\ i = Len(log)
              /\ pc = "panic"
              /\ abort # NoPanic
              /\ stdout = <<>>
              /\ ~ENABLED Next
    /\ GenerationFailed =>
          /\ pc = "panic"
          /\ stdout = <<>>
          /\ ~ENABLED Next

\* The invariant check of the second iteration reverted: the process is dead
\* and nothing is reported.
C17_Witness ==
    /\ pc = "panic"
    /\ iterations = 2
    /\ stdout = <<>>
    /\ log[Len(log)].site = "check"
    /\ log[Len(log)].kind = "Revert"

=============================================================================
